---------------------------- MODULE Spec2Model ----------------------------
(***************************************************************************)
(* Model of src/main.py: the Google Drive bulk downloader.                 *)
(*                                                                         *)
(* Text is modelled as a sequence of tokens.  A token is either a single   *)
(* character ("?", "/", ".", "\n", "a") or a run of characters that the    *)
(* program only ever treats as a unit ("/folders/", "pdf").  Substring     *)
(* tests, splits and suffix replacement are computed on these sequences    *)
(* the way the Python string operations compute them.                      *)
(*                                                                         *)
(* Spec is the whole program, google_drive_bulk_download, run up to        *)
(* MaxRuns times on the same output directory, with up to MaxFaults        *)
(* external calls raising.  SpecExtract is extract_folder_ids over every   *)
(* short links file, SpecCount the counting pass over every small          *)
(* hierarchy, SpecPath the walker over output directories and folder names.*)
(***************************************************************************)
EXTENDS Integers, Sequences, FiniteSets, TLC

VARIABLES
    pc,            \* position of google_drive_bulk_download
    links_file,    \* the links file: [exists, text]
    lines,         \* file.readlines()
    lineIdx,       \* index of the next line of the for loop of extract_folder_ids
    folder_ids,    \* the list extract_folder_ids builds and returns
    log,           \* the records written through logging, in order (this run)
    remote,        \* the remote hierarchy: identifier -> entry
    output_directory_path,  \* the configured output directory, as text
    fs,            \* the local filesystem: path -> node
    progress_bar,  \* the global progress bar: [set, total, n, closed]
    rootIdx,       \* index of the next root folder of the loop at line 175
    stack,         \* the active calls of download_google_drive_folder, innermost last
    trace,         \* history: remote calls, filesystem writes and per-file outcomes (this run)
    faults,        \* history: number of failures of external calls so far
    run,           \* number of the current run of the program
    prevClean      \* history: the previous run completed without logging an error or warning

vars == <<pc, links_file, lines, lineIdx, folder_ids, log, remote, output_directory_path,
          fs, progress_bar, rootIdx, stack, trace, faults, run, prevClean>>

\* what the link extractor neither reads nor writes
rest == <<remote, output_directory_path, fs, progress_bar, rootIdx, stack, trace, faults,
          run, prevClean>>

---------------------------------------------------------------------------
(* Tokens *)

LF      == "\n"
QMARK   == "?"
SLASH   == "/"
DOT     == "."
HOST    == "drive.google.com/drive"
FOLDERS == "/folders/"

\* "drive.google.com/drive/folders/", the marker tested at line 200
MARKER == <<HOST, FOLDERS>>

---------------------------------------------------------------------------
(* Python string operations *)

\* sub in s
Contains(s, sub) ==
    \E i \in 0..(Len(s) - Len(sub)) : SubSeq(s, i + 1, i + Len(sub)) = sub

\* s.find(sub) + 1: the 1-based position of the first occurrence, 0 when none
Find(s, sub) ==
    IF Contains(s, sub)
    THEN CHOOSE i \in 1..(Len(s) - Len(sub) + 1) :
            /\ SubSeq(s, i, i + Len(sub) - 1) = sub
            /\ \A j \in 1..(i - 1) : SubSeq(s, j, j + Len(sub) - 1) # sub
    ELSE 0

\* s.split(sep), sep non-empty
RECURSIVE Split(_, _)
Split(s, sep) ==
    LET i == Find(s, sep) IN
    IF i = 0
    THEN <<s>>
    ELSE <<SubSeq(s, 1, i - 1)>> \o Split(SubSeq(s, i + Len(sep), Len(s)), sep)

\* s.strip(), for the only whitespace of the alphabet, the line terminator
RECURSIVE Strip(_)
Strip(s) ==
    IF s # <<>> /\ s[1] = LF THEN Strip(Tail(s))
    ELSE IF s # <<>> /\ s[Len(s)] = LF THEN Strip(SubSeq(s, 1, Len(s) - 1))
    ELSE s

\* file.readlines(): the lines of the text, each keeping its terminator
RECURSIVE ReadLines(_)
ReadLines(text) ==
    IF text = <<>> THEN <<>>
    ELSE LET i == Find(text, <<LF>>) IN
         IF i = 0 THEN <<text>>
         ELSE <<SubSeq(text, 1, i)>> \o ReadLines(SubSeq(text, i + 1, Len(text)))

---------------------------------------------------------------------------
(* Logging *)

LogRec(level, msg, arg) == [level |-> level, msg |-> msg, arg |-> arg]

---------------------------------------------------------------------------
(* extract_folder_ids *)

\* line.split('/folders/'), line 202
FolderParts(line) == Split(line, <<FOLDERS>>)

\* line.split('/folders/')[1].split('?')[0], line 202; the caller has checked
\* that the list has a second element
FolderIdOf(line) == Split(FolderParts(line)[2], <<QMARK>>)[1]

\* lines 191-196: open the file and read its lines, or report it missing
ReadLinks ==
    /\ pc = "read"
    /\ IF links_file.exists
       THEN /\ lines' = ReadLines(links_file.text)
            /\ lineIdx' = 1
            /\ pc' = "lines"
            /\ log' = log
       ELSE /\ log' = Append(log, LogRec("ERROR", "Links file not found", <<>>))
            /\ lines' = <<>>
            /\ lineIdx' = 1
            /\ pc' = "check"
    /\ UNCHANGED <<links_file, folder_ids, rest>>

\* lines 199-205: one iteration of the loop over the lines
ExtractLine ==
    /\ pc = "lines"
    /\ lineIdx <= Len(lines)
    /\ LET line == lines[lineIdx] IN
       IF Contains(line, MARKER)
       THEN IF Len(FolderParts(line)) >= 2
            THEN /\ folder_ids' = Append(folder_ids, FolderIdOf(line))
                 /\ log' = log
            ELSE \* IndexError
                 /\ log' = Append(log, LogRec("WARNING", "Invalid folder link format",
                                             Strip(line)))
                 /\ folder_ids' = folder_ids
       ELSE UNCHANGED <<folder_ids, log>>
    /\ lineIdx' = lineIdx + 1
    /\ UNCHANGED <<pc, links_file, lines, rest>>

\* line 206: the loop is over, the list is returned
ExtractReturn ==
    /\ pc = "lines"
    /\ lineIdx > Len(lines)
    /\ pc' = "check"
    /\ UNCHANGED <<links_file, lines, lineIdx, folder_ids, log, rest>>

---------------------------------------------------------------------------
(* pathlib.Path: a path is the sequence of its components *)

RECURSIVE JoinWith(_, _)
JoinWith(parts, sep) ==
    IF parts = <<>> THEN <<>>
    ELSE IF Len(parts) = 1 THEN parts[1]
    ELSE parts[1] \o <<sep>> \o JoinWith(Tail(parts), sep)

IsComponent(c) == c # <<>> /\ c # <<DOT>>

\* Path(text) for a relative path: empty and "." components are dropped
PathOf(text) == SelectSeq(Split(text, <<SLASH>>), IsComponent)

\* str(path)
PathStr(path) == IF path = <<>> THEN <<DOT>> ELSE JoinWith(path, SLASH)

\* path / name
PathJoin(path, name) == path \o PathOf(name)

\* path.parent
Parent(path) == SubSeq(path, 1, Len(path) - 1)

\* name.rfind('.') + 1
RFindDot(name) ==
    IF \E i \in 1..Len(name) : name[i] = DOT
    THEN CHOOSE i \in 1..Len(name) :
            name[i] = DOT /\ \A j \in (i + 1)..Len(name) : name[j] # DOT
    ELSE 0

\* PurePath.suffix of a file name: from its last dot, unless that dot is the
\* first or the last character
SuffixOf(name) ==
    LET i == RFindDot(name) IN
    IF 1 < i /\ i < Len(name) THEN SubSeq(name, i, Len(name)) ELSE <<>>

\* path.with_suffix(suffix), path with a non-empty name
WithSuffix(path, suffix) ==
    LET name == path[Len(path)]
        stem == SubSeq(name, 1, Len(name) - Len(SuffixOf(name)))
    IN  Append(Parent(path), stem \o suffix)

PDF_SUFFIX == <<DOT, "pdf">>

---------------------------------------------------------------------------
(* The local filesystem *)

DirNode == [kind |-> "dir", data |-> "", of |-> <<>>]
FileNode(data, id) == [kind |-> "file", data |-> data, of |-> id]

\* path.exists()
Exists(path) == path \in DOMAIN fs

Prefixes(path) == {SubSeq(path, 1, k) : k \in 1..Len(path)}

\* mkdir(parents=True, exist_ok=True) succeeds unless a component of the path is a file
MkdirOk(path) == \A q \in Prefixes(path) : q \notin DOMAIN fs \/ fs[q].kind = "dir"

Mkdir(path) ==
    [q \in DOMAIN fs \cup Prefixes(path) |-> IF q \in DOMAIN fs THEN fs[q] ELSE DirNode]

\* open(path, 'wb') succeeds when the parent is a directory and the path is not one
CanWrite(path) ==
    /\ path # <<>>
    /\ Parent(path) \in DOMAIN fs
    /\ fs[Parent(path)].kind = "dir"
    /\ path \in DOMAIN fs => fs[path].kind = "file"

WriteFile(path, node) ==
    [q \in DOMAIN fs \cup {path} |-> IF q = path THEN node ELSE fs[q]]

---------------------------------------------------------------------------
(* The remote hierarchy *)

Folder(title, children) ==
    [title |-> title, folder |-> TRUE, children |-> children,
     downloadUrl |-> FALSE, exportLinks |-> "absent"]

File(title, downloadUrl, exportLinks) ==
    [title |-> title, folder |-> FALSE, children |-> <<>>,
     downloadUrl |-> downloadUrl, exportLinks |-> exportLinks]

\* file['mimeType'] == 'application/vnd.google-apps.folder'
IsFolder(id) == remote[id].folder

\* drive.ListFile({'q': "'<id>' in parents and trashed=false"}).GetList(), when it
\* answers: nothing is listed under an identifier the remote does not know
ListFile(folder_id) ==
    IF folder_id \in DOMAIN remote THEN remote[folder_id].children ELSE <<>>

Range(s) == {s[i] : i \in 1..Len(s)}

Ev(op, id, path, res) == [op |-> op, id |-> id, path |-> path, res |-> res]

---------------------------------------------------------------------------
(* count_files *)

RECURSIVE CountFiles(_, _)
RECURSIVE CountFrom(_, _, _)

\* EntryCount without the recursion: a folder entry adds nothing
EntryCountFlat(id, failing) ==
    IF IsFolder(id) THEN 0 ELSE 1

\* lines 77-80: what one listed entry adds to the count
EntryCount(id, failing) ==
    IF IsFolder(id) THEN CountFiles(id, failing) ELSE 1

\* lines 75-81: the loop over the listing, from index i
CountFrom(file_list, i, failing) ==
    IF i > Len(file_list) THEN 0
    ELSE EntryCount(file_list[i], failing) + CountFrom(file_list, i + 1, failing)

\* lines 58-81; failing: the folders whose listing raises
CountFiles(folder_id, failing) ==
    IF folder_id \in failing THEN 0
    ELSE CountFrom(ListFile(folder_id), 1, failing)

\* the folders count_files lists, in the order of the calls
RECURSIVE CountVisits(_, _)
RECURSIVE CountVisitsFrom(_, _, _)
CountVisitsFrom(file_list, i, failing) ==
    IF i > Len(file_list) THEN <<>>
    ELSE (IF IsFolder(file_list[i]) THEN CountVisits(file_list[i], failing) ELSE <<>>)
         \o CountVisitsFrom(file_list, i + 1, failing)

CountVisits(folder_id, failing) ==
    <<folder_id>> \o (IF folder_id \in failing THEN <<>>
                      ELSE CountVisitsFrom(ListFile(folder_id), 1, failing))

\* line 167: sum(count_files(folder_id, drive) for folder_id in folder_ids)
RECURSIVE TotalFiles(_, _, _)
TotalFiles(ids, i, failing) ==
    IF i > Len(ids) THEN 0
    ELSE CountFiles(ids[i], failing) + TotalFiles(ids, i + 1, failing)

RECURSIVE TotalVisits(_, _, _)
TotalVisits(ids, i, failing) ==
    IF i > Len(ids) THEN <<>>
    ELSE CountVisits(ids[i], failing) \o TotalVisits(ids, i + 1, failing)

\* the log and the calls of the counting pass
CountLog(visits, failing) ==
    [k \in 1..Len(SelectSeq(visits, LAMBDA f : f \in failing)) |->
        LogRec("ERROR", "Failed to fetch file list for folder ID",
               SelectSeq(visits, LAMBDA f : f \in failing)[k])]

CountEvents(visits, failing) ==
    [k \in 1..Len(visits) |->
        Ev("count", visits[k], <<>>, IF visits[k] \in failing THEN "raised" ELSE "ok")]

---------------------------------------------------------------------------
(* Bounds of the orchestrator specification *)

\* most failures of external calls (authentication, listing, metadata, fetch)
\* injected in one behaviour
MaxFaults == 2

\* most runs of the program on the same output directory
MaxRuns == 2

\* the outcomes of an external call: it answers, or (within the bound) it raises
CallOutcomes == {TRUE} \cup (IF faults < MaxFaults THEN {FALSE} ELSE {})

---------------------------------------------------------------------------
(* download_google_drive_folder *)

\* a call of download_google_drive_folder(folder_id, output_directory, drive)
Call(folder_id, output_directory) ==
    [id |-> folder_id, out |-> output_directory, dir |-> output_directory,
     list |-> <<>>, i |-> 1, at |-> "meta"]

\* line 104: the folder's name occurs in the text of the output path
NameInPath(folder_name, path) == Contains(PathStr(path), folder_name)

\* lines 103-105: the directory the folder's entries are written to
FolderOutputPath(output_directory, folder_name) ==
    IF ~NameInPath(folder_name, output_directory)
    THEN PathJoin(output_directory, folder_name)
    ELSE output_directory

\* line 120
FilePath(dir, id) == PathJoin(dir, remote[id].title)

\* ExportPath with ".pdf" added to the name, the extension kept
ExportPathAppended(file_path) ==
    Append(Parent(file_path), file_path[Len(file_path)] \o PDF_SUFFIX)

\* line 136: the path an export is written to
ExportPath(file_path) == WithSuffix(file_path, PDF_SUFFIX)

\* line 133-134: the entry has a usable PDF export link
HasPdfLink(id) == remote[id].exportLinks = "pdf"

\* the entry is fetched: GetContentFile (line 130) or the export request (line 135)
Fetches(dir, id) ==
    /\ ~Exists(FilePath(dir, id))
    /\ remote[id].downloadUrl \/ (remote[id].exportLinks # "absent" /\ HasPdfLink(id))

\* lines 145-146: the exception is logged; nothing else is done for the entry
Failed(id, events) ==
    [fs |-> fs, inc |-> 0,
     log |-> <<LogRec("ERROR", "Failed to process", remote[id].title)>>,
     events |-> events \o <<Ev("file", id, <<>>, "Failed")>>]

\* lines 119-146, the body of the loop for a file entry: the filesystem, the
\* log records, the progress increment and the calls it leaves behind
FileResult(dir, id, fetchOk) ==
    LET file_path == FilePath(dir, id)
        title == remote[id].title
    IN
    IF Exists(file_path)
    THEN [fs |-> fs, inc |-> 1,
          log |-> <<LogRec("INFO", "Skipped (already exists)", title)>>,
          events |-> <<Ev("file", id, file_path, "Skipped-Exists")>>]
    ELSE IF remote[id].downloadUrl
    THEN IF ~fetchOk
         THEN Failed(id, <<Ev("get", id, <<>>, "raised")>>)
         ELSE IF ~CanWrite(file_path)
         THEN Failed(id, <<Ev("get", id, <<>>, "ok"), Ev("write", id, file_path, "raised")>>)
         ELSE [fs |-> WriteFile(file_path, FileNode("content", id)), inc |-> 1,
               log |-> <<LogRec("INFO", "Downloaded", title)>>,
               events |-> <<Ev("get", id, <<>>, "ok"), Ev("write", id, file_path, "ok"),
                            Ev("file", id, file_path, "Downloaded")>>]
    ELSE IF remote[id].exportLinks # "absent"
    THEN IF HasPdfLink(id)
         THEN IF ~fetchOk
              THEN Failed(id, <<Ev("export", id, <<>>, "raised")>>)
              ELSE IF ~CanWrite(ExportPath(file_path))
              THEN Failed(id, <<Ev("export", id, <<>>, "ok"),
                                Ev("write", id, ExportPath(file_path), "raised")>>)
              ELSE [fs |-> WriteFile(ExportPath(file_path), FileNode("pdf", id)), inc |-> 1,
                    log |-> <<LogRec("INFO", "Exported as PDF", title)>>,
                    events |-> <<Ev("export", id, <<>>, "ok"),
                                 Ev("write", id, ExportPath(file_path), "ok"),
                                 Ev("file", id, ExportPath(file_path), "Exported")>>]
         ELSE [fs |-> fs, inc |-> 1,
               log |-> <<LogRec("WARNING", "No export link available", title)>>,
               events |-> <<Ev("file", id, <<>>, "Skipped-NoLink")>>]
    ELSE [fs |-> fs, inc |-> 1,
          log |-> <<LogRec("WARNING", "Skipped (not downloadable or exportable)", title)>>,
          events |-> <<Ev("file", id, <<>>, "Skipped-NoLink")>>]

\* the for loop at line 114 moves to the next entry
NextEntry(frame) == [frame EXCEPT !.i = @ + 1]

\* ContinueAfterError with the try block around the loop: the exception ends it
BreakAfterError(frame) == [frame EXCEPT !.i = Len(frame.list) + 1]

\* lines 145-146: the except clause is inside the loop, which goes on with the
\* next entry
ContinueAfterError(frame) == NextEntry(frame)

\* the stack once the innermost call has returned: the caller's loop goes on
Returned(stk) ==
    IF Len(stk) = 1 THEN <<>>
    ELSE [SubSeq(stk, 1, Len(stk) - 1) EXCEPT ![Len(stk) - 1] = NextEntry(@)]

\* the stack once the innermost call has raised into its caller's try block
Caught(stk) ==
    [SubSeq(stk, 1, Len(stk) - 1) EXCEPT ![Len(stk) - 1] = ContinueAfterError(@)]

Top == stack[Len(stack)]
SetTop(frame) == [stack EXCEPT ![Len(stack)] = frame]

\* lines 175-176: the next root folder is handed to the walker
StartRoot ==
    /\ pc = "walk"
    /\ stack = <<>>
    /\ rootIdx <= Len(folder_ids)
    /\ stack' = <<Call(folder_ids[rootIdx], PathOf(output_directory_path))>>
    /\ UNCHANGED <<pc, links_file, lines, lineIdx, folder_ids, log, remote,
                   output_directory_path, fs, progress_bar, rootIdx, trace, faults,
                   run, prevClean>>

\* lines 94-106: the folder's metadata, its output path, and the directory
EnterFolder ==
    /\ pc = "walk"
    /\ stack # <<>>
    /\ Top.at = "meta"
    /\ \E ok \in (IF Top.id \in DOMAIN remote THEN CallOutcomes ELSE {FALSE}) :
        IF ~ok
        THEN \* lines 98-100: logged, and the call returns
             /\ log' = Append(log, LogRec("ERROR", "Failed to fetch folder metadata", Top.id))
             /\ trace' = Append(trace, Ev("meta", Top.id, <<>>, "raised"))
             /\ faults' = IF Top.id \in DOMAIN remote THEN faults + 1 ELSE faults
             /\ stack' = Returned(stack)
             /\ rootIdx' = IF Len(stack) = 1 THEN rootIdx + 1 ELSE rootIdx
             /\ UNCHANGED <<pc, fs>>
        ELSE LET folder_name == remote[Top.id].title
                 path == FolderOutputPath(Top.out, folder_name)
                 creates == ~NameInPath(folder_name, Top.out)
                 info == LogRec("INFO", "Processing folder", folder_name)
                 meta == Ev("meta", Top.id, <<>>, "ok")
             IN
             IF creates /\ ~MkdirOk(path)
             THEN \* line 106 raises, outside any try block of this call
                  /\ trace' = trace \o <<meta, Ev("mkdir", Top.id, path, "raised")>>
                  /\ faults' = faults
                  /\ fs' = fs
                  /\ IF Len(stack) = 1
                     THEN /\ pc' = "crashed"
                          /\ stack' = <<>>
                          /\ log' = Append(log, info)
                          /\ rootIdx' = rootIdx
                     ELSE /\ pc' = pc
                          /\ stack' = Caught(stack)
                          /\ log' = log \o <<info, LogRec("ERROR", "Failed to process",
                                                          folder_name)>>
                          /\ rootIdx' = rootIdx
             ELSE /\ fs' = IF creates THEN Mkdir(path) ELSE fs
                  /\ trace' = trace \o (IF creates
                                        THEN <<meta, Ev("mkdir", Top.id, path, "ok")>>
                                        ELSE <<meta>>)
                  /\ log' = Append(log, info)
                  /\ stack' = SetTop([Top EXCEPT !.dir = path, !.at = "list"])
                  /\ UNCHANGED <<pc, faults, rootIdx>>
    /\ UNCHANGED <<links_file, lines, lineIdx, folder_ids, remote, output_directory_path,
                   progress_bar, run, prevClean>>

\* lines 108-112: the folder's listing
ListFolder ==
    /\ pc = "walk"
    /\ stack # <<>>
    /\ Top.at = "list"
    /\ \E ok \in CallOutcomes :
        IF ok
        THEN /\ stack' = SetTop([Top EXCEPT !.list = ListFile(Top.id), !.i = 1, !.at = "loop"])
             /\ trace' = Append(trace, Ev("list", Top.id, <<>>, "ok"))
             /\ UNCHANGED <<log, faults, rootIdx>>
        ELSE /\ log' = Append(log, LogRec("ERROR", "Failed to fetch file list for folder ID",
                                          Top.id))
             /\ trace' = Append(trace, Ev("list", Top.id, <<>>, "raised"))
             /\ faults' = faults + 1
             /\ stack' = Returned(stack)
             /\ rootIdx' = IF Len(stack) = 1 THEN rootIdx + 1 ELSE rootIdx
    /\ UNCHANGED <<pc, links_file, lines, lineIdx, folder_ids, remote,
                   output_directory_path, fs, progress_bar, run, prevClean>>

\* lines 116-117: the entry is a folder, the walker descends into it
Descend ==
    /\ pc = "walk"
    /\ stack # <<>>
    /\ Top.at = "loop"
    /\ Top.i <= Len(Top.list)
    /\ IsFolder(Top.list[Top.i])
    /\ stack' = Append(stack, Call(Top.list[Top.i], Top.dir))
    /\ UNCHANGED <<pc, links_file, lines, lineIdx, folder_ids, log, remote,
                   output_directory_path, fs, progress_bar, rootIdx, trace, faults,
                   run, prevClean>>

\* lines 118-146: the entry is a file
ProcessFile ==
    /\ pc = "walk"
    /\ stack # <<>>
    /\ Top.at = "loop"
    /\ Top.i <= Len(Top.list)
    /\ ~IsFolder(Top.list[Top.i])
    /\ LET id == Top.list[Top.i] IN
       \E fetchOk \in (IF Fetches(Top.dir, id) THEN CallOutcomes ELSE {TRUE}) :
          LET r == FileResult(Top.dir, id, fetchOk) IN
          /\ fs' = r.fs
          /\ log' = log \o r.log
          /\ trace' = trace \o r.events
          /\ progress_bar' = [progress_bar EXCEPT !.n = @ + r.inc]
          /\ faults' = IF fetchOk THEN faults ELSE faults + 1
          /\ stack' = SetTop(IF r.inc = 1 THEN NextEntry(Top) ELSE ContinueAfterError(Top))
    /\ UNCHANGED <<pc, links_file, lines, lineIdx, folder_ids, remote,
                   output_directory_path, rootIdx, run, prevClean>>

\* the loop at line 114 is over and the call returns
Return ==
    /\ pc = "walk"
    /\ stack # <<>>
    /\ Top.at = "loop"
    /\ Top.i > Len(Top.list)
    /\ stack' = Returned(stack)
    /\ rootIdx' = IF Len(stack) = 1 THEN rootIdx + 1 ELSE rootIdx
    /\ UNCHANGED <<pc, links_file, lines, lineIdx, folder_ids, log, remote,
                   output_directory_path, fs, progress_bar, trace, faults, run, prevClean>>

---------------------------------------------------------------------------
(* google_drive_bulk_download *)

\* line 158 (lines 29-55): authentication answers, or raises out of the program
Authenticate ==
    /\ pc = "auth"
    /\ \E ok \in CallOutcomes :
        IF ok
        THEN /\ log' = Append(log, LogRec("INFO", "Authentication successful", <<>>))
             /\ pc' = "read"
             /\ faults' = faults
        ELSE /\ log' = Append(log, LogRec("ERROR", "Failed to authenticate", <<>>))
             /\ pc' = "crashed"
             /\ faults' = faults + 1
    /\ UNCHANGED <<links_file, lines, lineIdx, folder_ids, remote, output_directory_path,
                   fs, progress_bar, rootIdx, stack, trace, run, prevClean>>

\* NoFolderIds with the check of the list left out
NoFolderIdsUnchecked(ids) == FALSE

\* line 162: not folder_ids
NoFolderIds(ids) == ids = <<>>

\* lines 161-164: the list the extractor returned is checked
CheckIds ==
    /\ pc = "check"
    /\ IF NoFolderIds(folder_ids)
       THEN /\ log' = Append(log, LogRec("ERROR", "No valid folder IDs found. Exiting.", <<>>))
            /\ pc' = "done"
       ELSE /\ log' = log
            /\ pc' = "count"
    /\ UNCHANGED <<links_file, lines, lineIdx, folder_ids, rest>>

\* lines 166-172: the counting pass and the progress bar.  A folder whose
\* listing raises is one that the pass does list.
Count ==
    /\ pc = "count"
    /\ \E failing \in SUBSET ({id \in DOMAIN remote : remote[id].folder} \cup Range(folder_ids)) :
        LET visits == TotalVisits(folder_ids, 1, failing)
            total_files == TotalFiles(folder_ids, 1, failing)
        IN
        /\ failing \subseteq Range(visits)
        /\ faults + Cardinality(failing) <= MaxFaults
        /\ faults' = faults + Cardinality(failing)
        /\ log' = log \o <<LogRec("INFO", "Counting all files in the provided folders", <<>>)>>
                      \o CountLog(visits, failing)
                      \o <<LogRec("INFO", "Total files to download", <<>>)>>
        /\ trace' = trace \o CountEvents(visits, failing)
        /\ progress_bar' = [set |-> TRUE, total |-> total_files, n |-> 0, closed |-> FALSE]
    /\ rootIdx' = 1
    /\ pc' = "walk"
    /\ UNCHANGED <<links_file, lines, lineIdx, folder_ids, remote, output_directory_path,
                   fs, stack, run, prevClean>>

\* line 178: every root folder has been walked
Finish ==
    /\ pc = "walk"
    /\ stack = <<>>
    /\ rootIdx > Len(folder_ids)
    /\ progress_bar' = [progress_bar EXCEPT !.closed = TRUE]
    /\ pc' = "done"
    /\ UNCHANGED <<links_file, lines, lineIdx, folder_ids, log, remote,
                   output_directory_path, fs, rootIdx, stack, trace, faults, run, prevClean>>

NoProgressBar == [set |-> FALSE, total |-> 0, n |-> 0, closed |-> FALSE]

\* lines 9-26 and 209-210: the program is started again on the same links file,
\* remote hierarchy and output directory
Rerun ==
    /\ pc \in {"done", "crashed"}
    /\ run < MaxRuns
    /\ run' = run + 1
    /\ prevClean' = (/\ pc = "done"
                     /\ progress_bar.closed
                     /\ \A k \in 1..Len(log) : log[k].level # "ERROR")
    /\ pc' = "auth"
    /\ lines' = <<>>
    /\ lineIdx' = 1
    /\ folder_ids' = <<>>
    /\ log' = <<>>
    /\ progress_bar' = NoProgressBar
    /\ rootIdx' = 1
    /\ stack' = <<>>
    /\ trace' = <<>>
    /\ UNCHANGED <<links_file, remote, output_directory_path, fs, faults>>

---------------------------------------------------------------------------
(* Bounds of the link extractor specification *)

\* longest links file of the extraction specification, in tokens
MaxFileLen == 5

RECURSIVE SeqsUpTo(_, _)
SeqsUpTo(S, n) ==
    IF n = 0 THEN {<<>>}
    ELSE LET shorter == SeqsUpTo(S, n - 1) IN
         shorter \cup {Append(s, c) : s \in {t \in shorter : Len(t) = n - 1}, c \in S}

\* the tokens of a links file
LinkAlphabet == {HOST, FOLDERS, QMARK, LF, "a"}

---------------------------------------------------------------------------
(* Specification of the link extractor alone *)

\* the filesystem before the first run: the working directory alone
EmptyFs == (<<>> :> DirNode)

InitExtract ==
    /\ pc = "read"
    /\ links_file \in {[exists |-> TRUE, text |-> t] : t \in SeqsUpTo(LinkAlphabet, MaxFileLen)}
                       \cup {[exists |-> FALSE, text |-> <<>>]}
    /\ lines = <<>>
    /\ lineIdx = 1
    /\ folder_ids = <<>>
    /\ log = <<>>
    /\ remote = <<>>
    /\ output_directory_path = <<DOT, SLASH, "o">>
    /\ fs = EmptyFs
    /\ progress_bar = NoProgressBar
    /\ rootIdx = 1
    /\ stack = <<>>
    /\ trace = <<>>
    /\ faults = 0
    /\ run = 1
    /\ prevClean = FALSE

NextExtract == ReadLinks \/ ExtractLine \/ ExtractReturn

SpecExtract == InitExtract /\ [][NextExtract]_vars

---------------------------------------------------------------------------
(* Specification of the whole program *)

A  == <<"a">>
B  == <<"b">>
S  == <<"s">>
F1 == <<"f1">>
F2 == <<"f2">>
F3 == <<"f3">>
F4 == <<"f4">>

\* the shapes of a file entry: downloadable, exportable as PDF, exportable but
\* not as PDF, neither, and both downloadable and exportable
FileShapes ==
    {[downloadUrl |-> TRUE,  exportLinks |-> "absent"],
     [downloadUrl |-> FALSE, exportLinks |-> "pdf"],
     [downloadUrl |-> FALSE, exportLinks |-> "nopdf"],
     [downloadUrl |-> FALSE, exportLinks |-> "absent"],
     [downloadUrl |-> TRUE,  exportLinks |-> "pdf"]}

FileOf(title, shape) == File(title, shape.downloadUrl, shape.exportLinks)

\* Two root folders.  "x" holds two files and, between them, a subfolder "d"
\* with an exportable document; "o", named like the output directory, holds
\* one downloadable file.
RemoteOf(t1, s1, t2, s2) ==
    (A :> Folder(<<"x">>, <<F1, S, F2>>)) @@
    (S :> Folder(<<"d">>, <<F3>>)) @@
    (B :> Folder(<<"o">>, <<F4>>)) @@
    (F1 :> FileOf(t1, s1)) @@
    (F2 :> FileOf(t2, s2)) @@
    (F3 :> File(<<"d">>, FALSE, "pdf")) @@
    (F4 :> File(<<"d">>, TRUE, "absent"))

Remotes ==
    {RemoteOf(t1, s1, t2, s2) :
        t1 \in {<<"d", DOT, "pdf">>, <<"d">>}, s1 \in FileShapes,
        t2 \in {<<"d">>, <<"d", DOT, "t">>}, s2 \in FileShapes}

\* a line of the links file naming a folder
Link(id, query) ==
    <<"https://", HOST, FOLDERS>> \o id
        \o (IF query THEN <<QMARK, "usp=sharing">> ELSE <<>>) \o <<LF>>

LinkFiles ==
    {[exists |-> FALSE, text |-> <<>>],
     [exists |-> TRUE, text |-> <<"a", LF>>],
     [exists |-> TRUE, text |-> Link(A, TRUE)],
     [exists |-> TRUE, text |-> Link(B, TRUE)],
     [exists |-> TRUE, text |-> Link(A, TRUE) \o <<"a", LF>> \o Link(B, TRUE)],
     [exists |-> TRUE, text |-> Link(A, FALSE) \o Link(B, TRUE)]}

Init ==
    /\ pc = "auth"
    /\ links_file \in LinkFiles
    /\ lines = <<>>
    /\ lineIdx = 1
    /\ folder_ids = <<>>
    /\ log = <<>>
    /\ remote \in Remotes
    /\ output_directory_path = <<DOT, SLASH, "o">>
    /\ fs = EmptyFs
    /\ progress_bar = NoProgressBar
    /\ rootIdx = 1
    /\ stack = <<>>
    /\ trace = <<>>
    /\ faults = 0
    /\ run = 1
    /\ prevClean = FALSE

Next ==
    \/ Authenticate
    \/ ReadLinks
    \/ ExtractLine
    \/ ExtractReturn
    \/ CheckIds
    \/ Count
    \/ StartRoot
    \/ EnterFolder
    \/ ListFolder
    \/ Descend
    \/ ProcessFile
    \/ Return
    \/ Finish
    \/ Rerun

Spec == Init /\ [][Next]_vars

---------------------------------------------------------------------------
(* Specification of the counting pass alone, over every small hierarchy *)

\* most entries below the root folder
MaxEntries == 4

R == <<"r">>
E(i) == <<"e" \o ToString(i)>>

\* the entries whose parent is p (0: the root), in listing order
ChildrenOf(p, n, parent) ==
    LET idx == SelectSeq([i \in 1..n |-> i], LAMBDA i : parent[i] = p)
    IN  [k \in 1..Len(idx) |-> E(idx[k])]

\* the hierarchy of n entries with the given kinds (TRUE: folder) and parents
TreeOf(n, isFolder, parent) ==
    [id \in {R} \cup {E(i) : i \in 1..n} |->
        IF id = R THEN Folder(<<"r">>, ChildrenOf(0, n, parent))
        ELSE LET i == CHOOSE j \in 1..n : E(j) = id IN
             IF isFolder[i] THEN Folder(<<"d">>, ChildrenOf(i, n, parent))
             ELSE File(<<"d">>, TRUE, "absent")]

InitCount ==
    /\ pc = "count"
    /\ links_file = [exists |-> TRUE, text |-> <<>>]
    /\ lines = <<>>
    /\ lineIdx = 1
    /\ log = <<>>
    /\ \E n \in 0..MaxEntries :
       \E isFolder \in [1..n -> BOOLEAN] :
       \E parent \in [1..n -> 0..n] :
          /\ \A i \in 1..n : parent[i] < i /\ (parent[i] # 0 => isFolder[parent[i]])
          /\ remote = TreeOf(n, isFolder, parent)
    /\ \E f \in {id \in DOMAIN remote : remote[id].folder} : folder_ids = <<f>>
    /\ output_directory_path = <<DOT, SLASH, "o">>
    /\ fs = EmptyFs
    /\ progress_bar = NoProgressBar
    /\ rootIdx = 1
    /\ stack = <<>>
    /\ trace = <<>>
    /\ faults = 0
    /\ run = 1
    /\ prevClean = FALSE

NextCount == Count

SpecCount == InitCount /\ [][NextCount]_vars

---------------------------------------------------------------------------
(* Specification of the walker alone, over output directories and folder names *)

\* longest output directory text, in characters
MaxPathLen == 3

\* longest folder name, in characters
MaxNameLen == 2

FolderNames == SeqsUpTo({"a", "b"}, MaxNameLen) \ {<<>>}

\* relative paths as the user may write them
OutputTexts ==
    {t \in SeqsUpTo({"a", "b", SLASH}, MaxPathLen) : t # <<>> /\ t[1] # SLASH}

InitPath ==
    /\ pc = "walk"
    /\ links_file = [exists |-> TRUE, text |-> Link(A, TRUE)]
    /\ lines = <<>>
    /\ lineIdx = 1
    /\ folder_ids = <<A>>
    /\ log = <<>>
    /\ \E n1 \in FolderNames, n2 \in FolderNames :
          remote = (A :> Folder(n1, <<S>>)) @@ (S :> Folder(n2, <<F1>>))
                   @@ (F1 :> File(<<"d">>, TRUE, "absent"))
    /\ output_directory_path \in OutputTexts
    /\ fs = EmptyFs
    /\ progress_bar = [set |-> TRUE, total |-> 1, n |-> 0, closed |-> FALSE]
    /\ rootIdx = 1
    /\ stack = <<>>
    /\ trace = <<>>
    /\ faults = 0
    /\ run = 1
    /\ prevClean = FALSE

NextPath ==
    \/ StartRoot
    \/ EnterFolder
    \/ ListFolder
    \/ Descend
    \/ ProcessFile
    \/ Return
    \/ Finish

SpecPath == InitPath /\ [][NextPath]_vars

---------------------------------------------------------------------------
(* Claims *)

\* the program has not yet passed the check of the extracted list
BeforeCount == pc \in {"auth", "read", "lines", "check"}

AbortRecord == LogRec("ERROR", "No valid folder IDs found. Exiting.", <<>>)

\* C9: whenever extract_folder_ids returns an empty list, the program logs an
\* error and returns: no remote call has been or is made, the progress bar is
\* never initialised and nothing is created or written in the filesystem.
C9_AbortOnNoInput ==
    /\ [](BeforeCount => trace = <<>> /\ ~progress_bar.set /\ stack = <<>>)
    /\ [][BeforeCount => fs' = fs]_vars
    /\ [][(pc = "check" /\ folder_ids = <<>>) =>
            /\ pc' = "done"
            /\ log' = Append(log, AbortRecord)
            /\ UNCHANGED <<fs, progress_bar, trace, stack>>]_vars
    /\ [][(pc = "done" /\ ~progress_bar.set) => (pc' = "auth" /\ run' = run + 1 /\ fs' = fs)]_vars

\* C9 witness: a run on a links file without a folder link has ended at the abort
C9_Witness ==
    /\ pc = "done"
    /\ links_file.exists
    /\ folder_ids = <<>>
    /\ log[Len(log)] = AbortRecord
    /\ ~progress_bar.set

\* the line without its terminator
LineText(line) ==
    IF line # <<>> /\ line[Len(line)] = LF THEN SubSeq(line, 1, Len(line) - 1) ELSE line

\* the text of a line between the marker and the next "?" or the end of the line
AfterMarker(line) ==
    LET text == LineText(line)
        after == SubSeq(text, Find(text, MARKER) + Len(MARKER), Len(text))
        q == Find(after, <<QMARK>>)
    IN  IF q = 0 THEN after ELSE SubSeq(after, 1, q - 1)

\* the step is one iteration of the loop over the lines
LineStep == pc = "lines" /\ lineIdx <= Len(lines) /\ lineIdx' = lineIdx + 1

\* C5: for a line that contains the marker, the identifier appended is exactly
\* the text between the marker and the next "?" or the end of the line (no line
\* terminator, and taken after the marker even when "/folders/" occurs earlier
\* on the line); identifiers are appended in line order, duplicates kept.
C5_IdIsTextAfterMarker ==
    [][(LineStep /\ Contains(lines[lineIdx], MARKER) /\ folder_ids' # folder_ids) =>
            folder_ids' = Append(folder_ids, AfterMarker(lines[lineIdx]))]_vars

\* C6: a line with the marker and nothing extractable after it logs a warning
\* and appends nothing, so no empty identifier is ever returned; a line without
\* the marker appends nothing and logs nothing.
C6_MalformedSkipped ==
    [][LineStep =>
        /\ (Contains(lines[lineIdx], MARKER) /\ AfterMarker(lines[lineIdx]) = <<>>) =>
              /\ folder_ids' = folder_ids
              /\ Len(log') = Len(log) + 1
              /\ log'[Len(log')].level = "WARNING"
        /\ ~Contains(lines[lineIdx], MARKER) => UNCHANGED <<folder_ids, log>>
        /\ \A k \in 1..Len(folder_ids') : folder_ids'[k] # <<>>]_vars

\* the entries below a folder, found by closing the set under the listing
RECURSIVE Below(_)
Below(ids) ==
    LET more == ids \cup {c \in DOMAIN remote :
                            \E p \in ids : p \in DOMAIN remote /\ c \in Range(remote[p].children)}
    IN  IF more = ids THEN ids ELSE Below(more)

FilesUnder(folder_id) == {id \in Below({folder_id}) \ {folder_id} : ~remote[id].folder}

NoCallRaised == \A k \in 1..Len(trace) : trace[k].res # "raised"

\* C4: with a lister that always answers, count_files(folderId) is exactly the
\* number of non-folder entries below the folder at any depth; folders add 0.
C4_CountIsDescendantFiles ==
    (pc = "walk" /\ progress_bar.set /\ Len(folder_ids) = 1 /\ trace # <<>> /\ NoCallRaised)
        => progress_bar.total = Cardinality(FilesUnder(folder_ids[1]))

\* C4 witness: a count of two or more files, one of them below a subfolder
C4_Witness ==
    /\ pc = "walk"
    /\ Len(folder_ids) = 1
    /\ NoCallRaised
    /\ progress_bar.total >= 2
    /\ \E f \in FilesUnder(folder_ids[1]) : f \notin Range(remote[folder_ids[1]].children)
    /\ \E d \in Range(remote[folder_ids[1]].children) : remote[d].folder

\* the title of the folder a call walks
TitleOf(frame) == remote[frame.id].title

\* C3: the walker reuses outputDir as the target directory exactly when the last
\* component of outputDir is the folder's display name; in every other case the
\* target is outputDir/<displayName>, and that directory has been created.
C3_ReuseIffLastComponent ==
    \A k \in 1..Len(stack) :
        stack[k].at # "meta" =>
            LET out == stack[k].out IN
            IF out # <<>> /\ out[Len(out)] = TitleOf(stack[k])
            THEN stack[k].dir = out
            ELSE /\ stack[k].dir = Append(out, TitleOf(stack[k]))
                 /\ stack[k].dir \in DOMAIN fs
                 /\ fs[stack[k].dir].kind = "dir"

\* the run has walked every root folder and closed the progress bar
Walked == pc = "done" /\ progress_bar.closed

FileEvents == SelectSeq(trace, LAMBDA e : e.op = "file")

\* C2: when every metadata and listing call answers, the progress counter
\* equals the total once all roots are walked, whatever the per-file outcomes:
\* every visited file entry increments it exactly once, also when its fetch or
\* write raised.
C2_CounterReachesTotal ==
    (Walked /\ \A k \in 1..Len(trace) :
                  trace[k].op \in {"count", "meta", "list"} => trace[k].res = "ok")
        => /\ progress_bar.n = Len(FileEvents)
           /\ progress_bar.n = progress_bar.total

\* the folders whose walk was cut short in this run
FailedFolders ==
    {trace[k].id : k \in {j \in 1..Len(trace) :
                            trace[j].op \in {"meta", "list", "mkdir"} /\ trace[j].res = "raised"}}

\* the folders above an entry, found by closing the set under "is listed in"
RECURSIVE Above(_)
Above(ids) ==
    LET more == ids \cup {p \in DOMAIN remote :
                            \E c \in ids : c \in Range(remote[p].children)}
    IN  IF more = ids THEN ids ELSE Above(more)

Terminal == {"Skipped-Exists", "Downloaded", "Exported", "Skipped-NoLink", "Failed"}

\* C7: a failure of one entry or of one folder never stops the rest: once the
\* program is done, every file entry below a root folder that is in no folder
\* whose metadata, listing or directory failed has reached a terminal state;
\* the walk ends only when every root folder has been walked, and no metadata,
\* listing or per-file failure ends the program abnormally.
C7_FaultIsolation ==
    /\ [](Walked =>
            \A r \in Range(folder_ids) : \A f \in FilesUnder(r) :
                Above({f}) \cap FailedFolders = {} =>
                    \E k \in 1..Len(trace) :
                        trace[k].op = "file" /\ trace[k].id = f /\ trace[k].res \in Terminal)
    /\ [](pc = "crashed" =>
            \/ trace = <<>>
            \/ trace[Len(trace)].op = "mkdir" /\ trace[Len(trace)].res = "raised")
    /\ [][(pc = "walk" /\ pc' # "walk") =>
            \/ pc' = "done" /\ stack = <<>> /\ rootIdx > Len(folder_ids)
            \/ /\ pc' = "crashed"
               /\ trace'[Len(trace')].op = "mkdir"
               /\ trace'[Len(trace')].res = "raised"]_vars

\* C7 witness: a run is done in which a file entry failed, a folder failed, and
\* entries after each of them, the second root folder's among them, were processed
C7_Witness ==
    /\ Walked
    /\ Len(folder_ids) = 2
    /\ \E i, j, k, l \in 1..Len(trace) :
          /\ i < j /\ j < k /\ k < l
          /\ trace[i].op = "file" /\ trace[i].res = "Failed"
          /\ trace[j].op = "list" /\ trace[j].res = "raised"
          /\ trace[k].op = "file" /\ trace[k].res # "Failed"
          /\ trace[l].op = "file" /\ trace[l].id \in FilesUnder(folder_ids[2])

\* the step processes the file entry the innermost loop is at
FileStep ==
    /\ pc = "walk"
    /\ stack # <<>>
    /\ Top.at = "loop"
    /\ Top.i <= Len(Top.list)
    /\ ~IsFolder(Top.list[Top.i])
    /\ stack' # stack

\* a file name without its extension: what precedes its last dot, when
\* characters stand on both sides of that dot
NameWithoutExt(name) ==
    LET dots == {i \in 2..(Len(name) - 1) : name[i] = DOT /\ \A j \in (i + 1)..Len(name) : name[j] # DOT}
    IN  IF dots = {} THEN name ELSE SubSeq(name, 1, (CHOOSE i \in dots : TRUE) - 1)

\* the filesystem changes at path p alone, which now holds node
OnlyWrites(p, node) ==
    /\ DOMAIN fs' = DOMAIN fs \cup {p}
    /\ fs'[p] = node
    /\ \A q \in DOMAIN fs : q # p => fs'[q] = fs[q]

\* C8: for a file entry without direct-download reference and without a local
\* file at targetDir/<displayName>: with a PDF export reference, exactly one
\* file is written, at targetDir/<nameWithoutExt>.pdf, holding the exported
\* bytes (when the request or the write raises, the entry fails and nothing is
\* written); with export references but no PDF reference, a warning is logged
\* and nothing is written.
C8_ExportHandling ==
    [][(/\ FileStep
        /\ ~remote[Top.list[Top.i]].downloadUrl
        /\ remote[Top.list[Top.i]].exportLinks # "absent"
        /\ Append(Top.dir, remote[Top.list[Top.i]].title) \notin DOMAIN fs) =>
          LET id == Top.list[Top.i]
              title == remote[id].title
              last == trace'[Len(trace')]
          IN  IF remote[id].exportLinks = "pdf"
              THEN \/ /\ last.res = "Exported"
                      /\ OnlyWrites(Append(Top.dir, NameWithoutExt(title) \o <<DOT, "pdf">>),
                                    FileNode("pdf", id))
                   \/ /\ last.res = "Failed"
                      /\ trace'[Len(trace') - 1].res = "raised"
                      /\ fs' = fs
              ELSE /\ last.res = "Skipped-NoLink"
                   /\ fs' = fs
                   /\ Len(log') = Len(log) + 1
                   /\ log'[Len(log')].level = "WARNING"
                   /\ log'[Len(log')].arg = title]_vars

\* C8 witness: a document whose name has an extension has been exported, and an
\* entry with export references but none for PDF has been skipped with a warning
C8_Witness ==
    /\ \E k \in 1..Len(trace) :
          /\ trace[k].res = "Exported"
          /\ remote[trace[k].id].title = <<"d", DOT, "t">>
          /\ ~remote[trace[k].id].downloadUrl
          /\ trace[k].path \in DOMAIN fs
          /\ fs[trace[k].path] = FileNode("pdf", trace[k].id)
    /\ \E k \in 1..Len(trace) :
          /\ trace[k].res = "Skipped-NoLink"
          /\ remote[trace[k].id].exportLinks = "nopdf"

\* C10: a local file that exists when a file entry is about to be processed is
\* left unchanged: the walker only writes to paths that did not exist.  Stated
\* for the behaviours in which no external call raises.
C10_NoOverwrite ==
    [][faults' = 0 => \A p \in DOMAIN fs : p \in DOMAIN fs' /\ fs'[p] = fs[p]]_vars

\* every file entry of the remote is downloadable or exportable as PDF
AllFetchable ==
    \A id \in DOMAIN remote :
        ~remote[id].folder => remote[id].downloadUrl \/ remote[id].exportLinks = "pdf"

\* C1: after a run that completed without failure on a hierarchy whose files
\* are all downloadable or exportable as PDF, a second run on the same output
\* directory fetches nothing: every file entry takes the skip-exists branch and
\* increments the progress counter once.  Stated for the behaviours in which
\* no external call raises in either run.
C1_SecondRunFetchesNothing ==
    (run >= 2 /\ prevClean /\ AllFetchable /\ faults = 0) =>
        /\ \A k \in 1..Len(trace) : trace[k].op \notin {"get", "export"}
        /\ \A k \in 1..Len(FileEvents) : FileEvents[k].res = "Skipped-Exists"
        /\ progress_bar.n = Len(FileEvents)

=============================================================================
